---- MODULE Spec2Model ----
(***************************************************************************)
(* Tunnel server (src/server/server.js): agent registry and session        *)
(* lifecycle, HTTP <-> agent request multiplexer, telemetry pipeline.      *)
(*                                                                         *)
(* Every handler of the server is an async function on one event loop: it  *)
(* runs without interruption up to its next `await`, and other handlers    *)
(* run between an await and its resumption.  Each action below is one such *)
(* uninterrupted segment; a database call takes effect in the segment that *)
(* resumes from it.                                                        *)
(***************************************************************************)
EXTENDS Integers, Sequences, FiniteSets, Bags, TLC

\* ---------------------------------------------------------------- bounds
NumSessions == 2
NumTunnels == 2
MaxRegisters == 2
NumReqs == 2
TickMs == 10000
MaxAgeMs == 20000
MaxFin == 2
MaxFlushes == 2
MaxHour == 1
MaxBuffered == 2
MaxGroup == 11
MaxRows == 2
MaxTotal == 2
NumUsers == 2
NumIps == 2
MaxCalls == 6
WebTickMs == 30000
WebMaxMs == 90000

Sessions == 1..NumSessions
TunnelIds == 1..NumTunnels
Reqs == 1..NumReqs
Users == 1..NumUsers
Ips == 1..NumIps

\* ------------------------------------------------------ program constants
NoSession == 0
NoTunnel == 0
NoUser == 0
CloseNormal == 1000
CloseAuthFailed == 4001
CloseDuplicate == 4002
CloseRegFailed == 4003
TimeoutMs == 10000
BufferThreshold == 100
TopK == 10

VARIABLES
    agents,         \* Map tunnelId -> WebSocket (NoSession: no entry)
    wsState,        \* per transport: "none", "open", "closing", "closed"
    closeCode,      \* per transport: code of the close the server sent, 0 if none
    wsTunnelId,     \* per connection closure variable
    tunnelRecord,   \* per connection closure variable (id of the row), NoTunnel = null
    regPc,          \* per transport: position of its register handler
    regMsg,         \* per transport: locals of the register handler in progress
    closePc,        \* per transport: position of its close handler
    frames,         \* per transport: frame types the agent has received
    tunnelRow,      \* Tunnel table: id -> [exists, isActive, subdomain]
    registers,      \* number of register frames received so far
    evictedBy,      \* per transport: the session whose register handler closed it as a duplicate
    dbFaulted,      \* TRUE once a database call has been made to fail
    userRow         \* User table: TRUE when the row of the tokens' user exists

regVars == <<agents, wsState, closeCode, wsTunnelId, tunnelRecord, regPc,
             regMsg, closePc, frames, tunnelRow, registers, evictedBy, dbFaulted, userRow>>

VARIABLES
    reqIdent,         \* per public request: first path segment, 0 when the path is empty
    reqPc,            \* per public request: position of its app.use handler / request stream
    reqTunnel,        \* per request: tunnel.id found at dispatch
    reqAgent,         \* per request: the `agent` captured at dispatch
    pendingResponses, \* Map requestId -> res (the set of its keys)
    activeRequests,   \* Map analyticsId -> request data (the set of its keys)
    timer,            \* per request: ms since its timeout was armed, -1 when not armed
    age,              \* per request: ms since HTTP ingress
    responses,        \* per request: status codes of the HTTP responses written
    proc,             \* the server process: exited, position of the signal handler, ...
    daily,            \* generateDailyStats: time zone, position, tunnel groups left
    dailyStats,       \* DailyStats table: <<tunnelId, day>> -> [totalRequests, peakHour]
    web               \* the web backend: rateLimitMap, its clock, the calls of rateLimit

\* process-wide state
sysVars == <<proc, daily, dailyStats, web>>

muxVars == <<reqIdent, reqPc, reqTunnel, reqAgent, pendingResponses, activeRequests, timer, age,
             responses, sysVars>>

VARIABLES
    fin,              \* bag of storeRespData invocations in progress
    metricsBuffer,    \* the metrics buffer
    metricsOf,        \* per request: number of metric records appended for it
    liveStats,        \* LiveStats table, one row per tunnel
    logRows,          \* per request: number of RequestLog rows inserted for it
    hourNow,          \* the current UTC hour: [year, rest], rest = hours into the year
    flushes,          \* processMetricsBuffer invocations in progress: the groups each has left
    hourlyStats,      \* HourlyStats table: <<tunnelId, hour>> -> counters
    appended          \* <<tunnelId, hour>> -> number of metrics ever appended for that key

telVars == <<fin, metricsBuffer, metricsOf, liveStats, logRows, hourNow, flushes,
             hourlyStats, appended>>

vars == <<regVars, muxVars, telVars>>

NoMsg == [agentId |-> NoTunnel, subdomain |-> NoTunnel, userId |-> NoUser, existing |-> FALSE,
          evicted |-> FALSE,
          createdUser |-> FALSE]
AbsentRow == [exists |-> FALSE, isActive |-> FALSE, subdomain |-> NoTunnel, userId |-> NoUser]
StoppedRow(t) == [exists |-> TRUE, isActive |-> FALSE, subdomain |-> t, userId |-> 1]

\* ------------------------------------------------------------ ws library
\* ws.close(code): starts the closing handshake of an open transport; no
\* effect on a transport that is already closing or closed.
WsCloseState(st, s) == IF st[s] = "open" THEN [st EXCEPT ![s] = "closing"] ELSE st
WsCloseCode(st, cc, s, code) == IF st[s] = "open" THEN [cc EXCEPT ![s] = code] ELSE cc

\* ws.send(frame): the agent receives the frame only on an open transport.
WsSend(st, fr, s, type) == IF st[s] = "open" THEN [fr EXCEPT ![s] = @ \cup {type}] ELSE fr

\* ------------------------------------------------------------------ Init
InitRegistry ==
    /\ agents = [t \in TunnelIds |-> NoSession]
    /\ wsState = [s \in Sessions |-> "none"]
    /\ closeCode = [s \in Sessions |-> 0]
    /\ wsTunnelId = [s \in Sessions |-> NoTunnel]
    /\ tunnelRecord = [s \in Sessions |-> NoTunnel]
    /\ regPc = [s \in Sessions |-> "idle"]
    /\ regMsg = [s \in Sessions |-> NoMsg]
    /\ closePc = [s \in Sessions |-> "none"]
    /\ frames = [s \in Sessions |-> {}]
    /\ tunnelRow \in [TunnelIds -> {AbsentRow}] \cup {[t \in TunnelIds |-> StoppedRow(t)]}
    /\ registers = 0
    /\ evictedBy = [s \in Sessions |-> NoSession]
    /\ dbFaulted = FALSE
    /\ userRow \in BOOLEAN

StartHour == [year |-> 2025, rest |-> 0]

NoLiveRow == [exists |-> FALSE, requestsLast5Min |-> 0, requestsLast1Hour |-> 0, errorRate |-> 0]

\* the process as server.listen leaves it: running, no signal received,
\* the HTTP server listening, the database client connected
ProcStarted == [exited |-> FALSE, shutdown |-> "none", listening |-> TRUE, released |-> FALSE,
                atSignal |-> {}, flush |-> 0]

\* the event loop runs handlers until process.exit
Running == ~ proc.exited

InitReqVars ==
    /\ reqIdent = [r \in Reqs |-> 0]
    /\ reqPc = [r \in Reqs |-> "new"]
    /\ reqTunnel = [r \in Reqs |-> NoTunnel]
    /\ reqAgent = [r \in Reqs |-> NoSession]
    /\ pendingResponses = {}
    /\ activeRequests = {}
    /\ timer = [r \in Reqs |-> -1]
    /\ age = [r \in Reqs |-> 0]
    /\ responses = [r \in Reqs |-> << >>]

\* generateDailyStats has not run; the server's time zone is UTC
DailyIdle == [tz |-> 0, pc |-> "idle", date |-> 0, groups |-> << >>]

\* the web backend's rate limiter (lib/rate-limit): the two callers' addresses
\* and the two rate-limited device endpoints
Addresses == {"10.0.0.1", "10.0.0.2"}
Endpoints == {"device/code", "device/poll"}

\* windowMs of every call of rateLimit, and the limits the endpoints pass
WindowMs == 60000
CodeLimit == 5
PollLimit == 30
LimitOf(endpoint) == IF endpoint = "device/code" THEN CodeLimit ELSE PollLimit

\* rateLimitMap.get(ip) of an address that has no entry
NoEntry == [present |-> FALSE, count |-> 0, resetTime |-> 0]

\* the module is loaded: rateLimitMap is empty, no call was made
WebIdle == [rateLimitMap |-> [ip \in Addresses |-> NoEntry],
            now |-> 0,
            calls |-> 0,
            admitted |-> [k \in Addresses \X Endpoints |-> << >>],
            last |-> [ip |-> "", endpoint |-> "", success |-> FALSE]]

InitMuxVars ==
    /\ proc = ProcStarted
    /\ web = WebIdle
    /\ daily = DailyIdle
    /\ dailyStats = << >>
    /\ InitReqVars

InitTelVars ==
    /\ fin = EmptyBag
    /\ metricsBuffer = << >>
    /\ metricsOf = [r \in Reqs |-> 0]
    /\ liveStats = [t \in TunnelIds |-> NoLiveRow]
    /\ logRows = [r \in Reqs |-> 0]
    /\ hourNow = StartHour
    /\ flushes = << >>
    /\ hourlyStats = << >>
    /\ appended = << >>

\* ------------------------------------------------- wss.on('connection')
Connect(s) ==
    /\ Running
    /\ wsState[s] = "none"
    /\ wsState' = [wsState EXCEPT ![s] = "open"]
    /\ UNCHANGED <<agents, closeCode, wsTunnelId, tunnelRecord, regPc, regMsg,
                   closePc, frames, tunnelRow, registers, evictedBy, dbFaulted, userRow>>

\* catch (authError): error frame, close 4001
RegAuthFailNoClose(s) ==
    /\ frames' = WsSend(wsState, frames, s, "error")
    /\ UNCHANGED <<wsState, closeCode>>
    /\ regPc' = [regPc EXCEPT ![s] = "idle"]
RegAuthFail(s) ==
    /\ frames' = WsSend(wsState, frames, s, "error")
    /\ wsState' = WsCloseState(wsState, s)
    /\ closeCode' = WsCloseCode(wsState, closeCode, s, CloseAuthFailed)
    /\ regPc' = [regPc EXCEPT ![s] = "idle"]

\* catch (dbError): error frame, close 4003
RegDbFail(s) ==
    /\ frames' = WsSend(wsState, frames, s, "error")
    /\ wsState' = WsCloseState(wsState, s)
    /\ closeCode' = WsCloseCode(wsState, closeCode, s, CloseRegFailed)
    /\ regPc' = [regPc EXCEPT ![s] = "idle"]

\* signJWT of the auth backend issues tokens with this issuer
Issuer == "cli-auth-backend"

\* what a register frame can carry as its token: signed with JWT_SECRET or
\* not, past its exp or not, issued by the auth backend or by another party,
\* with the userId of its payload
Tokens == [signed : BOOLEAN, expired : BOOLEAN, iss : {Issuer, "other"}, userId : Users]

\* jwt.verify(token, JWT_SECRET) without options: it checks the signature
\* and the exp claim; no issuer option is passed
JwtVerify(token) == token.signed /\ ~ token.expired

\* message handler, register frame: jwt.verify (ws.user = userData) up to
\* `await ensureUserExists`
RegisterFrame(s, t, token, sub) ==
    /\ Running
    /\ wsState[s] = "open"
    /\ regPc[s] = "idle"
    /\ registers < MaxRegisters
    /\ registers' = registers + 1
    /\ IF JwtVerify(token)
       THEN /\ wsTunnelId' = [wsTunnelId EXCEPT ![s] = t]
            /\ regMsg' = [regMsg EXCEPT ![s] = [NoMsg EXCEPT !.agentId = t, !.subdomain = sub,
                                                            !.userId = token.userId]]
            /\ regPc' = [regPc EXCEPT ![s] = "ensureUser"]
            /\ UNCHANGED <<frames, wsState, closeCode>>
       ELSE /\ RegAuthFail(s)
            /\ UNCHANGED <<wsTunnelId, regMsg>>
    /\ UNCHANGED <<agents, tunnelRecord, closePc, tunnelRow, evictedBy, dbFaulted, userRow>>

\* a register frame of user 1 whose token verifies or does not
RegisterRecv(s, t, tokenValid, sub) ==
    RegisterFrame(s, t, [signed |-> tokenValid, expired |-> FALSE, iss |-> Issuer, userId |-> 1],
                  sub)

\* resumes from ensureUserExists (the User row exists from here on);
\* duplicate eviction; issues tunnel.findUnique.  regMsg.evicted records
\* that this handler closed and removed another, live session, regMsg.createdUser
\* that its ensureUserExists created the User row.
RegEvict(s) ==
    /\ Running
    /\ regPc[s] = "ensureUser"
    /\ LET t == wsTunnelId[s]
           oldWs == agents[t]
       IN  IF oldWs # NoSession
           THEN /\ wsState' = WsCloseState(wsState, oldWs)
                /\ closeCode' = WsCloseCode(wsState, closeCode, oldWs, CloseDuplicate)
                /\ agents' = [agents EXCEPT ![t] = NoSession]
                /\ evictedBy' = IF wsState[oldWs] = "open"
                                THEN [evictedBy EXCEPT ![oldWs] = s] ELSE evictedBy
           ELSE UNCHANGED <<wsState, closeCode, agents, evictedBy>>
    /\ regMsg' = [regMsg EXCEPT
                     ![s].evicted =
                         /\ agents[wsTunnelId[s]] \notin {NoSession, s}
                         /\ wsState[agents[wsTunnelId[s]]] = "open",
                     ![s].createdUser = ~ userRow]
    /\ userRow' = TRUE
    /\ regPc' = [regPc EXCEPT ![s] = "findTunnel"]
    /\ UNCHANGED <<wsTunnelId, tunnelRecord, closePc, frames, tunnelRow, registers, dbFaulted>>

\* resumes from tunnel.findUnique({id}); issues tunnel.findFirst (conflict)
RegFindTunnel(s) ==
    /\ Running
    /\ regPc[s] = "findTunnel"
    /\ regMsg' = [regMsg EXCEPT ![s].existing = tunnelRow[wsTunnelId[s]].exists]
    /\ regPc' = [regPc EXCEPT ![s] = "findConflict"]
    /\ UNCHANGED <<agents, wsState, closeCode, wsTunnelId, tunnelRecord, closePc,
                   frames, tunnelRow, registers, evictedBy, dbFaulted, userRow>>

\* const desiredSubdomain = subdomain || wsTunnelId
DesiredSubdomain(s) ==
    IF regMsg[s].subdomain # NoTunnel THEN regMsg[s].subdomain ELSE wsTunnelId[s]

\* tunnel.findFirst({subdomain: desired, id: {not: wsTunnelId}})
SubdomainConflict(rows, desired, t) ==
    \E o \in TunnelIds : o # t /\ rows[o].exists /\ rows[o].subdomain = desired

\* resumes from the conflict lookup.  On a conflict the handler reaches
\* `desiredSubdomain = finalSubdomain`, an assignment to a const, which
\* throws into catch (dbError); without an explicit subdomain it first
\* awaits generateUniqueSubdomain.
RegFindConflict(s) ==
    /\ Running
    /\ regPc[s] = "findConflict"
    /\ IF SubdomainConflict(tunnelRow, DesiredSubdomain(s), wsTunnelId[s])
       THEN IF regMsg[s].subdomain # NoTunnel
            THEN RegDbFail(s)
            ELSE /\ regPc' = [regPc EXCEPT ![s] = "genSubdomain"]
                 /\ UNCHANGED <<frames, wsState, closeCode>>
       ELSE /\ regPc' = [regPc EXCEPT ![s] = "upsert"]
            /\ UNCHANGED <<frames, wsState, closeCode>>
    /\ UNCHANGED <<agents, wsTunnelId, tunnelRecord, regMsg, closePc, tunnelRow, registers, evictedBy, dbFaulted, userRow>>

\* resumes from generateUniqueSubdomain, then the const assignment throws
RegGenSubdomain(s) ==
    /\ Running
    /\ regPc[s] = "genSubdomain"
    /\ RegDbFail(s)
    /\ UNCHANGED <<agents, wsTunnelId, tunnelRecord, regMsg, closePc, tunnelRow, registers, evictedBy, dbFaulted, userRow>>

\* tunnel.update / tunnel.create obey the table's unique constraints
UpsertAccepted(rows, t, existing, desired) ==
    /\ existing = rows[t].exists
    /\ ~ SubdomainConflict(rows, desired, t)

\* resumes from tunnel.update / tunnel.create; agents.set; registered frame
RegUpsert(s, dbFails) ==
    /\ Running
    /\ regPc[s] = "upsert"
    /\ LET t == wsTunnelId[s]
           desired == DesiredSubdomain(s)
       IN IF ~ dbFails /\ UpsertAccepted(tunnelRow, t, regMsg[s].existing, desired)
          THEN /\ tunnelRow' = [tunnelRow EXCEPT ![t] =
                                  [exists |-> TRUE, isActive |-> TRUE, subdomain |-> desired,
                                   userId |-> IF tunnelRow[t].exists THEN tunnelRow[t].userId
                                              ELSE regMsg[s].userId]]
               /\ tunnelRecord' = [tunnelRecord EXCEPT ![s] = t]
               /\ agents' = [agents EXCEPT ![t] = s]
               /\ frames' = WsSend(wsState, frames, s, "registered")
               /\ regPc' = [regPc EXCEPT ![s] = "idle"]
               /\ UNCHANGED <<wsState, closeCode, dbFaulted>>
          ELSE /\ RegDbFail(s)
               /\ dbFaulted' = (dbFaulted \/ dbFails)
               /\ UNCHANGED <<tunnelRow, tunnelRecord, agents>>
    /\ UNCHANGED <<wsTunnelId, regMsg, closePc, registers, evictedBy, userRow>>

\* the agent (or the network) closes the transport
ClientClose(s) ==
    /\ wsState[s] = "open"
    /\ wsState' = [wsState EXCEPT ![s] = "closing"]
    /\ UNCHANGED <<agents, closeCode, wsTunnelId, tunnelRecord, regPc, regMsg,
                   closePc, frames, tunnelRow, registers, evictedBy, dbFaulted, userRow>>

\* ws.on('close'), up to `await prisma.tunnel.update`
CloseEvent(s) ==
    /\ Running
    /\ wsState[s] = "closing"
    /\ wsState' = [wsState EXCEPT ![s] = "closed"]
    /\ closePc' = [closePc EXCEPT ![s] =
                     IF wsTunnelId[s] # NoTunnel /\ tunnelRecord[s] # NoTunnel
                     THEN "update" ELSE "done"]
    /\ UNCHANGED <<agents, closeCode, wsTunnelId, tunnelRecord, regPc, regMsg,
                   frames, tunnelRow, registers, evictedBy, dbFaulted, userRow>>

\* ws.on('close'), resumes from the update (isActive: false); agents.delete
CloseUpdate(s) ==
    /\ Running
    /\ closePc[s] = "update"
    /\ tunnelRow' = [tunnelRow EXCEPT ![tunnelRecord[s]].isActive = FALSE]
    /\ agents' = [agents EXCEPT ![wsTunnelId[s]] = NoSession]
    /\ closePc' = [closePc EXCEPT ![s] = "done"]
    /\ UNCHANGED <<wsState, closeCode, wsTunnelId, tunnelRecord, regPc, regMsg, frames,
                   registers, evictedBy, dbFaulted, userRow>>

RegisterStep ==
    \/ \E s \in Sessions, t \in TunnelIds, token \in Tokens, sub \in {NoTunnel} \cup TunnelIds :
          RegisterRecv(s, t, JwtVerify(token), sub)
    \/ \E s \in Sessions : RegEvict(s)
    \/ \E s \in Sessions : RegFindTunnel(s)
    \/ \E s \in Sessions : RegFindConflict(s)
    \/ \E s \in Sessions : RegGenSubdomain(s)
    \/ \E s \in Sessions, f \in BOOLEAN : RegUpsert(s, f)

RegistryNext ==
    \/ \E s \in Sessions : Connect(s)
    \/ RegisterStep
    \/ \E s \in Sessions : ClientClose(s)
    \/ \E s \in Sessions : CloseEvent(s)
    \/ \E s \in Sessions : CloseUpdate(s)

InitServer == InitRegistry /\ InitMuxVars /\ InitTelVars

SpecRegistry == InitServer /\ [][RegistryNext /\ UNCHANGED <<muxVars, telVars>>]_vars

\* ============================================================= telemetry

\* number of storeRespData invocations in progress for request r
InProgress(r) ==
    BagCardinality([x \in {y \in BagToSet(fin) : y.id = r} |-> fin[x]])

\* storeRespData up to `await getCountryFromIP`: returns at once when the
\* in-flight entry is gone, else an invocation is in progress
StoreRespStart(f, r, code) ==
    IF r \in activeRequests
    THEN f (+) SetToBag({[id |-> r, statusCode |-> code, stage |-> "country"]})
    ELSE f

FinMove(x, stage) ==
    (fin (-) SetToBag({x})) (+) SetToBag({[x EXCEPT !.stage = stage]})

Bump(f, k) == IF k \in DOMAIN f THEN [f EXCEPT ![k] = @ + 1] ELSE f @@ (k :> 1)

\* id strings of the tunnels, split at '-': the agent chooses the id, tunnel 1
\* has an id without '-', the others an id of two pieces ("my-app")
IdSegments(t) == IF t = 1 THEN <<t>> ELSE <<t, t>>

\* the tunnel whose id is the string of these pieces; NoTunnel when the
\* string is no tunnel's id
TunnelOfSegments(segments) ==
    IF \E t \in TunnelIds : IdSegments(t) = segments
    THEN CHOOSE t \in TunnelIds : IdSegments(t) = segments
    ELSE NoTunnel

\* the years of the metric timestamps
Years == {StartHour.year, StartHour.year + 1}

\* the hours a metric timestamp truncates to
Hours == [year : Years, rest : 0..MaxHour]

\* Date.toISOString() of an hour, split at '-': the year, then the rest
IsoSegments(hour) == <<hour.year, hour.rest>>

\* getHourKey(date): the timestamp truncated to the hour, as ISO string
GetHourKey(timestamp) == IsoSegments(timestamp)

\* `${metric.tunnelId}-${getHourKey(metric.timestamp)}`
HourKey(metric) == IdSegments(metric.tunnelId) \o GetHourKey(metric.timestamp)

\* hourlyGroups: Map hourKey -> metrics.  A Map iterates in insertion order:
\* the groups are ordered by the first metric of each key, and each group
\* holds the metrics of its key in buffer order.
GroupMetrics(buf) ==
    LET firsts == {i \in DOMAIN buf :
                      \A j \in 1..(i - 1) : HourKey(buf[j]) # HourKey(buf[i])}
        nth(n) == CHOOSE i \in firsts : Cardinality({j \in firsts : j < i}) = n - 1
        SameKey(key) == SelectSeq(buf, LAMBDA m : HourKey(m) = key)
    IN  [n \in 1..Cardinality(firsts) |->
            [key |-> HourKey(buf[nth(n)]), metrics |-> SameKey(HourKey(buf[nth(n)]))]]

\* processMetricsBuffer up to its first `await updateHourlyStats`
FlushStart(fl, buf) == IF Len(buf) = 0 THEN fl ELSE Append(fl, GroupMetrics(buf))

\* hourKey.split('-', 2): at most the first two pieces
SplitLimit2(key) == SubSeq(key, 1, IF Len(key) < 2 THEN Len(key) ELSE 2)

\* an Invalid Date: a Date without a time value
InvalidDate == [year |-> -1, rest |-> -1]

\* new Date(hourString): a year alone parses to the start of that year, a
\* piece of a tunnel id is no date
ParseDate(hourString) ==
    IF hourString \in Years THEN [year |-> hourString, rest |-> 0] ELSE InvalidDate

\* const [tunnelId, hourString] = hourKey.split('-', 2); hour = new Date(hourString)
DecodeHourKey(hourKey) ==
    LET parts == SplitLimit2(hourKey)
    IN  <<TunnelOfSegments(<<parts[1]>>), ParseDate(parts[2])>>

CountIfStrict(metrics, isError) ==
    Cardinality({i \in DOMAIN metrics : (metrics[i].statusCode > 400) = isError})
CountIf(metrics, isError) ==
    Cardinality({i \in DOMAIN metrics : (metrics[i].statusCode >= 400) = isError})

\* a Map counting the keys of a list: its entries <<key, count>>, in the
\* order in which the keys were first set
CountEntries(keys) ==
    LET firsts == {i \in DOMAIN keys : \A j \in 1..(i - 1) : keys[j] # keys[i]}
        nth(n) == CHOOSE i \in firsts : Cardinality({j \in firsts : j < i}) = n - 1
    IN  [n \in 1..Cardinality(firsts) |->
            <<keys[nth(n)], Cardinality({j \in DOMAIN keys : keys[j] = keys[nth(n)]})>>]

\* entries.sort(([, a], [, b]) => b - a): by count descending, stable
SortDescending(entries) ==
    LET rank(i) == Cardinality({j \in DOMAIN entries : entries[j][2] > entries[i][2]})
                   + Cardinality({j \in 1..(i - 1) : entries[j][2] = entries[i][2]}) + 1
    IN  [n \in DOMAIN entries |-> entries[CHOOSE i \in DOMAIN entries : rank(i) = n]]

\* .sort(...).slice(0, 10), then Object.fromEntries: the keys are no integers,
\* so the object keeps the order of the entries
TopEntries(entries) ==
    SubSeq(SortDescending(entries), 1, IF Len(entries) < TopK THEN Len(entries) ELSE TopK)

\* `${m.method} ${m.path}` of each metric
PathKeys(metrics) == [i \in DOMAIN metrics |-> <<metrics[i].method, metrics[i].path>>]

\* m.country of each metric that has one
CountryKeys(metrics) ==
    LET located == SelectSeq(metrics, LAMBDA m : m.country # "")
    IN  [i \in DOMAIN located |-> located[i].country]

\* Object.fromEntries(statusCounts): status code -> count, every code
StatusCounts(metrics) ==
    [c \in {metrics[i].statusCode : i \in DOMAIN metrics} |->
        Cardinality({i \in DOMAIN metrics : metrics[i].statusCode = c})]

\* prisma.hourlyStats.upsert of updateHourlyStats: create sets the
\* aggregates of the group, update increments the counters and replaces
\* topPaths, topCountries and statusCodes.  ips is not a column: it records
\* the client addresses of all metrics flushed into the row.
HourlyUpsert(table, hourKey, metrics) ==
    LET k == DecodeHourKey(hourKey)
        totalRequests == Len(metrics)
        successRequests == CountIf(metrics, FALSE)
        errorRequests == totalRequests - successRequests
        topPaths == TopEntries(CountEntries(PathKeys(metrics)))
        topCountries == TopEntries(CountEntries(CountryKeys(metrics)))
        statusCodes == StatusCounts(metrics)
        clientIps == {metrics[i].clientIp : i \in DOMAIN metrics}
        uniqueIps == Cardinality(clientIps)
    IN  IF k \in DOMAIN table
        THEN [table EXCEPT ![k] = [totalRequests |-> @.totalRequests + totalRequests,
                                   successRequests |-> @.successRequests + successRequests,
                                   errorRequests |-> @.errorRequests + errorRequests,
                                   uniqueIps |-> @.uniqueIps + uniqueIps,
                                   topPaths |-> topPaths,
                                   topCountries |-> topCountries,
                                   statusCodes |-> statusCodes,
                                   ips |-> @.ips \cup clientIps]]
        ELSE table @@ (k :> [totalRequests |-> totalRequests,
                             successRequests |-> successRequests,
                             errorRequests |-> errorRequests,
                             uniqueIps |-> uniqueIps,
                             topPaths |-> topPaths,
                             topCountries |-> topCountries,
                             statusCodes |-> statusCodes,
                             ips |-> clientIps])

RemoveAt(seq, i) == SubSeq(seq, 1, i - 1) \o SubSeq(seq, i + 1, Len(seq))

\* storeRespData resumes from getCountryFromIP: metricsBuffer.push
FinCountry(x) ==
    /\ Running
    /\ x \in BagToSet(fin)
    /\ x.stage = "country"
    /\ LET metric == [tunnelId |-> reqTunnel[x.id], path |-> reqIdent[x.id], method |-> "GET",
                      country |-> "LOCAL", clientIp |-> 1, statusCode |-> x.statusCode,
                      timestamp |-> hourNow]
       IN  /\ metricsBuffer' = Append(metricsBuffer, metric)
           /\ appended' = Bump(appended, <<metric.tunnelId, metric.timestamp>>)
    /\ metricsOf' = [metricsOf EXCEPT ![x.id] = @ + 1]
    /\ fin' = FinMove(x, "live")
    /\ UNCHANGED <<liveStats, logRows, hourNow, flushes, hourlyStats>>
    /\ UNCHANGED <<regVars, muxVars>>

\* an upsert whose update branch writes the create values
LiveUpsertOverwrite(row, statusCode) ==
    [exists |-> TRUE, requestsLast5Min |-> 1, requestsLast1Hour |-> 1,
     errorRate |-> IF statusCode >= 400 THEN 1 ELSE 0]

\* prisma.liveStats.upsert of updateLiveStats: one statement of the
\* database (INSERT ... ON CONFLICT DO UPDATE with increments)
LiveUpsert(row, statusCode) ==
    IF row.exists
    THEN [row EXCEPT !.requestsLast5Min = @ + 1, !.requestsLast1Hour = @ + 1,
                     !.errorRate = IF statusCode >= 400 THEN @ + 1 ELSE @]
    ELSE [exists |-> TRUE, requestsLast5Min |-> 1, requestsLast1Hour |-> 1,
          errorRate |-> IF statusCode >= 400 THEN 1 ELSE 0]

\* storeRespData resumes from updateLiveStats
FinLive(x) ==
    /\ Running
    /\ x \in BagToSet(fin)
    /\ x.stage = "live"
    /\ liveStats' = [liveStats EXCEPT ![reqTunnel[x.id]] = LiveUpsert(@, x.statusCode)]
    /\ fin' = FinMove(x, "log")
    /\ UNCHANGED <<metricsBuffer, metricsOf, logRows, hourNow, flushes, hourlyStats, appended>>
    /\ UNCHANGED <<regVars, muxVars>>

\* storeRespData resumes from storeRequestLog: threshold trigger, clean up
FinLog(x) ==
    /\ Running
    /\ x \in BagToSet(fin)
    /\ x.stage = "log"
    /\ logRows' = [logRows EXCEPT ![x.id] = @ + 1]
    /\ IF Len(metricsBuffer) >= BufferThreshold
       THEN /\ Len(flushes) < MaxFlushes
            /\ flushes' = FlushStart(flushes, metricsBuffer)
       ELSE UNCHANGED flushes
    /\ activeRequests' = activeRequests \ {x.id}
    /\ fin' = fin (-) SetToBag({x})
    /\ UNCHANGED <<metricsBuffer, metricsOf, liveStats, hourNow, hourlyStats, appended>>
    /\ UNCHANGED <<regVars, reqIdent, reqPc, reqTunnel, reqAgent, pendingResponses, timer,
                   age, responses, sysVars>>

\* setInterval(..., 2 * 60 * 1000): processMetricsBuffer()
FlushTick ==
    /\ Running
    /\ Len(flushes) < MaxFlushes
    /\ flushes' = FlushStart(flushes, metricsBuffer)
    /\ UNCHANGED <<fin, metricsBuffer, metricsOf, liveStats, logRows, hourNow, hourlyStats,
                   appended>>
    /\ UNCHANGED <<regVars, muxVars>>

\* the processMetricsBuffer invocation i has returned: the invocations after
\* it move up, and a signal handler awaiting it resumes
FlushReturned(p, i) ==
    IF p.flush = i THEN [p EXCEPT !.flush = 0, !.shutdown = "flushed"]
    ELSE IF p.flush > i THEN [p EXCEPT !.flush = @ - 1]
    ELSE p

\* processMetricsBuffer resumes from updateHourlyStats of its next group;
\* after the last group it clears the buffer.  A failing upsert (dbFails)
\* is caught and logged inside updateHourlyStats.  hour.toISOString() of an
\* Invalid Date throws before the try: the rejection of the un-awaited
\* processMetricsBuffer() reaches the unhandledRejection handler, which
\* calls process.exit(1).
FlushStep(i, dbFails) ==
    /\ Running
    /\ i \in DOMAIN flushes
    /\ LET group == flushes[i][1]
           rest == Tail(flushes[i])
       IN  IF DecodeHourKey(group.key)[2] = InvalidDate
           THEN /\ ~ dbFails
                /\ proc' = [proc EXCEPT !.exited = TRUE]
                /\ UNCHANGED <<hourlyStats, metricsBuffer, flushes, dbFaulted>>
           ELSE /\ hourlyStats' = IF dbFails THEN hourlyStats
                                  ELSE HourlyUpsert(hourlyStats, group.key, group.metrics)
                /\ dbFaulted' = (dbFaulted \/ dbFails)
                /\ IF rest = << >>
                   THEN /\ metricsBuffer' = << >>
                        /\ flushes' = RemoveAt(flushes, i)
                        /\ proc' = FlushReturned(proc, i)
                   ELSE /\ flushes' = [flushes EXCEPT ![i] = rest]
                        /\ UNCHANGED <<metricsBuffer, proc>>
    /\ UNCHANGED <<fin, metricsOf, liveStats, logRows, hourNow, appended>>
    /\ UNCHANGED <<agents, wsState, closeCode, wsTunnelId, tunnelRecord, regPc, regMsg, closePc,
                   frames, tunnelRow, registers, evictedBy, userRow>>
    /\ UNCHANGED <<reqIdent, reqPc, reqTunnel, reqAgent, pendingResponses, activeRequests, timer,
                   age, responses, daily, dailyStats, web>>

\* every upsert of the flush succeeds
GoodFlushStep(i) == FlushStep(i, FALSE)

\* ------------------------------------------------------ daily aggregation

\* Date.getHours(): the hour of the day in the server's time zone
GetHours(hour, tz) == (hour.rest + tz) % 24

\* the day of an hour in the server's time zone, counted from the start of
\* the year
LocalDay(hour, tz) == (hour.rest + tz) \div 24

\* the timer of generateDailyStats fires: yesterday 00:00 local time is
\* computed and hourlyStats.findMany issued
DailyStart ==
    /\ Running
    /\ daily.pc = "idle"
    /\ daily' = [daily EXCEPT !.pc = "find", !.date = LocalDay(hourNow, daily.tz) - 1]
    /\ UNCHANGED <<proc, dailyStats, web>>
    /\ UNCHANGED <<reqIdent, reqPc, reqTunnel, reqAgent, pendingResponses, activeRequests, timer,
                   age, responses>>
    /\ UNCHANGED <<regVars, telVars>>

\* tunnelGroups: Map tunnelId -> rows, in the order the tunnels first occur
GroupByTunnel(rows) ==
    LET firsts == {i \in DOMAIN rows :
                      \A j \in 1..(i - 1) : rows[j].tunnelId # rows[i].tunnelId}
        nth(n) == CHOOSE i \in firsts : Cardinality({j \in firsts : j < i}) = n - 1
    IN  [n \in 1..Cardinality(firsts) |->
            [tunnelId |-> rows[nth(n)].tunnelId,
             stats |-> SelectSeq(rows, LAMBDA row : row.tunnelId = rows[nth(n)].tunnelId)]]

\* generateDailyStats resumes from findMany({hour: {gte: yesterday, lt:
\* today}}): the rows of the day, in the order the database returns them
DailyRead(order) ==
    /\ Running
    /\ daily.pc = "find"
    /\ LET inDay == {k \in DOMAIN hourlyStats :
                        k[2].year = hourNow.year /\ LocalDay(k[2], daily.tz) = daily.date}
       IN  /\ DOMAIN order = 1..Cardinality(inDay)
           /\ {order[n] : n \in DOMAIN order} = inDay
           /\ LET rows == [n \in DOMAIN order |->
                              [tunnelId |-> order[n][1], hour |-> order[n][2],
                               totalRequests |-> hourlyStats[order[n]].totalRequests]]
              IN  daily' = [daily EXCEPT !.groups = GroupByTunnel(rows),
                                         !.pc = IF rows = << >> THEN "done" ELSE "upsert"]
    /\ UNCHANGED <<proc, dailyStats, web>>
    /\ UNCHANGED <<reqIdent, reqPc, reqTunnel, reqAgent, pendingResponses, activeRequests, timer,
                   age, responses>>
    /\ UNCHANGED <<regVars, telVars>>

\* current.totalRequests > max.totalRequests
GreaterFlipped(current, max) == current.totalRequests < max.totalRequests
Greater(current, max) == current.totalRequests > max.totalRequests

\* stats.reduce((max, current) => current.totalRequests > max.totalRequests
\* ? current : max), from position i on
RECURSIVE ReducePeak(_, _, _)
ReducePeak(stats, i, max) ==
    IF i > Len(stats) THEN max
    ELSE ReducePeak(stats, i + 1, IF Greater(stats[i], max) THEN stats[i] ELSE max)

\* stats.reduce((sum, s) => sum + s.totalRequests, 0), from position i on
RECURSIVE ReduceTotal(_, _, _)
ReduceTotal(stats, i, sum) ==
    IF i > Len(stats) THEN sum ELSE ReduceTotal(stats, i + 1, sum + stats[i].totalRequests)

\* generateDailyStats resumes from the dailyStats.upsert of the previous
\* tunnel (or from findMany) and issues the upsert of the next tunnel
DailyUpsert ==
    /\ Running
    /\ daily.pc = "upsert"
    /\ LET group == Head(daily.groups)
           peakHourStat == ReducePeak(group.stats, 2, group.stats[1])
           row == [totalRequests |-> ReduceTotal(group.stats, 1, 0),
                   peakHour |-> GetHours(peakHourStat.hour, daily.tz)]
           key == <<group.tunnelId, daily.date>>
       IN  /\ dailyStats' = [k \in DOMAIN dailyStats \cup {key} |->
                                IF k = key THEN row ELSE dailyStats[k]]
           /\ daily' = [daily EXCEPT !.groups = Tail(@),
                                      !.pc = IF Tail(daily.groups) = << >> THEN "done" ELSE @]
    /\ UNCHANGED <<proc, web>>
    /\ UNCHANGED <<reqIdent, reqPc, reqTunnel, reqAgent, pendingResponses, activeRequests, timer,
                   age, responses>>
    /\ UNCHANGED <<regVars, telVars>>

\* =================================================== public HTTP front-end

\* getTunnelByIdentifier: by subdomain first, then by id
GetTunnelByIdFirst(rows, identifier) ==
    IF identifier \in TunnelIds /\ rows[identifier].exists
    THEN identifier
    ELSE IF \E t \in TunnelIds : rows[t].exists /\ rows[t].subdomain = identifier
         THEN CHOOSE t \in TunnelIds : rows[t].exists /\ rows[t].subdomain = identifier
         ELSE NoTunnel
GetTunnelByIdentifier(rows, identifier) ==
    IF \E t \in TunnelIds : rows[t].exists /\ rows[t].subdomain = identifier
    THEN CHOOSE t \in TunnelIds : rows[t].exists /\ rows[t].subdomain = identifier
    ELSE IF identifier \in TunnelIds /\ rows[identifier].exists
         THEN identifier
         ELSE NoTunnel

\* res.status(code).json(...) before storeReqData has run
RejectTracked(r, code) ==
    /\ responses' = [responses EXCEPT ![r] = Append(@, code)]
    /\ reqPc' = [reqPc EXCEPT ![r] = "rejected"]
    /\ activeRequests' = activeRequests \cup {r}
Reject(r, code) ==
    /\ responses' = [responses EXCEPT ![r] = Append(@, code)]
    /\ reqPc' = [reqPc EXCEPT ![r] = "rejected"]
    /\ UNCHANGED activeRequests

\* app.use handler up to `await getTunnelByIdentifier`
Ingress(r, identifier) ==
    /\ Running
    /\ proc.listening
    /\ reqPc[r] = "new"
    /\ \A q \in Reqs : q < r => reqPc[q] # "new"
    /\ reqIdent' = [reqIdent EXCEPT ![r] = identifier]
    /\ IF identifier = 0
       THEN Reject(r, 400)
       ELSE /\ reqPc' = [reqPc EXCEPT ![r] = "lookup"]
            /\ UNCHANGED <<responses, activeRequests>>
    /\ UNCHANGED <<reqTunnel, reqAgent, pendingResponses, timer, age, sysVars>>
    /\ UNCHANGED <<regVars, telVars>>

\* app.use handler from the tunnel lookup to the attached stream listeners:
\* 404 / 503 / 502, or storeReqData and the captured `agent`
Dispatch(r) ==
    /\ Running
    /\ reqPc[r] = "lookup"
    /\ LET t == GetTunnelByIdentifier(tunnelRow, reqIdent[r])
       IN  IF t = NoTunnel
           THEN Reject(r, 404) /\ UNCHANGED <<reqTunnel, reqAgent>>
           ELSE IF ~ tunnelRow[t].isActive
           THEN Reject(r, 503) /\ UNCHANGED <<reqTunnel, reqAgent>>
           ELSE IF agents[t] = NoSession
           THEN Reject(r, 502) /\ UNCHANGED <<reqTunnel, reqAgent>>
           ELSE /\ reqTunnel' = [reqTunnel EXCEPT ![r] = t]
                /\ reqAgent' = [reqAgent EXCEPT ![r] = agents[t]]
                /\ activeRequests' = activeRequests \cup {r}
                /\ reqPc' = [reqPc EXCEPT ![r] = "buffering"]
                /\ UNCHANGED responses
    /\ UNCHANGED <<reqIdent, pendingResponses, timer, age, sysVars>>
    /\ UNCHANGED <<regVars, telVars>>

\* pendingResponses.has(id) / pendingResponses.get(id)
PendingHasAlways(pending, id) == TRUE
PendingHas(pending, id) == id \in pending

\* pendingResponses.delete(id)
PendingDeleteAll(pending, id) == {}
PendingDeleteSkipped(pending, id) == pending
PendingDelete(pending, id) == pending \ {id}

\* res.status(code).send(...) through the wrappers of storeReqData and of the
\* timeout: clearTimeout, storeRespData(requestId, statusCode), the write.
\* Every send is preceded by res.status(code), so the `statusCode` the
\* wrapper of storeReqData captured is the code being sent.
WrappedSendNoWrite(f, r, code) ==
    /\ timer' = [timer EXCEPT ![r] = -1]
    /\ fin' = StoreRespStart(f, r, code)
    /\ UNCHANGED responses
WrappedSend(f, r, code) ==
    /\ timer' = [timer EXCEPT ![r] = -1]
    /\ fin' = StoreRespStart(f, r, code)
    /\ responses' = [responses EXCEPT ![r] = Append(@, code)]

\* req.on('end'): register the responder, send the request frame, arm the
\* timeout; catch (err): unregister, storeRespData(500), 500
BodyEnd(r, sendThrows) ==
    /\ Running
    /\ reqPc[r] = "buffering"
    /\ sendThrows => wsState[reqAgent[r]] # "open"
    /\ reqPc' = [reqPc EXCEPT ![r] = "ended"]
    /\ IF sendThrows
       THEN /\ WrappedSend(StoreRespStart(fin, r, 500), r, 500)
            /\ pendingResponses' = PendingDelete(pendingResponses \cup {r}, r)
       ELSE /\ pendingResponses' = pendingResponses \cup {r}
            /\ timer' = [timer EXCEPT ![r] = 0]
            /\ UNCHANGED <<fin, responses>>
    /\ UNCHANGED <<reqIdent, reqTunnel, reqAgent, activeRequests, age, sysVars>>
    /\ UNCHANGED <<regVars, metricsBuffer, metricsOf, liveStats, logRows, hourNow, flushes,
                   hourlyStats, appended>>

\* req.on('error'): the client went away before the response was written
ReqError(r) ==
    /\ Running
    /\ reqPc[r] \in {"buffering", "ended"}
    /\ responses[r] = << >>
    /\ reqPc' = [reqPc EXCEPT ![r] = IF @ = "buffering" THEN "aborted" ELSE @]
    /\ IF PendingHas(pendingResponses, r)
       THEN /\ WrappedSend(StoreRespStart(fin, r, 400), r, 400)
            /\ pendingResponses' = PendingDelete(pendingResponses, r)
       ELSE UNCHANGED <<timer, fin, responses, pendingResponses>>
    /\ UNCHANGED <<reqIdent, reqTunnel, reqAgent, activeRequests, age, sysVars>>
    /\ UNCHANGED <<regVars, metricsBuffer, metricsOf, liveStats, logRows, hourNow, flushes,
                   hourlyStats, appended>>

\* the setTimeout callback of the request
TimeoutFire(r) ==
    /\ Running
    /\ timer[r] >= TimeoutMs
    /\ IF PendingHas(pendingResponses, r)
       THEN /\ WrappedSend(StoreRespStart(fin, r, 504), r, 504)
            /\ pendingResponses' = PendingDelete(pendingResponses, r)
       ELSE /\ timer' = [timer EXCEPT ![r] = -1]
            /\ UNCHANGED <<fin, responses, pendingResponses>>
    /\ UNCHANGED <<reqIdent, reqPc, reqTunnel, reqAgent, activeRequests, age, sysVars>>
    /\ UNCHANGED <<regVars, metricsBuffer, metricsOf, liveStats, logRows, hourNow, flushes,
                   hourlyStats, appended>>

\* http.ServerResponse accepts status codes 100..999
ValidStatus(code) == code >= 100 /\ code <= 999

\* message handler, response frame {id, statusCode, headers, body} received
\* on transport s.  headersOk: res.set(headers) does not throw.  An invalid
\* status code throws either in res.status (statusThrows, express 5) or in
\* the write behind the wrappers (express 4); both land in the catch.
AgentResponse(s, id, statusCode, headersOk, statusThrows) ==
    /\ Running
    /\ wsState[s] = "open"
    /\ (PendingHas(pendingResponses, id) /\ headersOk) => InProgress(id) < MaxFin
    /\ LET code == IF statusCode = 0 THEN 200 ELSE statusCode
       IN  IF ~ PendingHas(pendingResponses, id) \/ ~ headersOk
           THEN UNCHANGED <<timer, fin, responses, pendingResponses>>
           ELSE IF ValidStatus(code)
           THEN /\ WrappedSend(fin, id, code)
                /\ pendingResponses' = PendingDelete(pendingResponses, id)
           ELSE IF statusThrows
           THEN UNCHANGED <<timer, fin, responses, pendingResponses>>
           ELSE /\ timer' = [timer EXCEPT ![id] = -1]
                /\ fin' = StoreRespStart(fin, id, code)
                /\ UNCHANGED <<responses, pendingResponses>>
    /\ UNCHANGED <<reqIdent, reqPc, reqTunnel, reqAgent, activeRequests, age, sysVars>>
    /\ UNCHANGED <<regVars, metricsBuffer, metricsOf, liveStats, logRows, hourNow, flushes,
                   hourlyStats, appended>>

Ageing(r) == reqPc[r] # "new" /\ responses[r] = << >> /\ age[r] + TickMs <= MaxAgeMs

\* TickMs of wall-clock time pass; a due timeout fires before more time passes.
\* age (time since ingress) is an observer of the program, kept when
\* observeAge; the armed timers are the program's own.
Tick(observeAge) ==
    /\ \A r \in Reqs : timer[r] < TimeoutMs
    /\ \E r \in Reqs : (observeAge /\ Ageing(r)) \/ timer[r] >= 0
    /\ age' = [r \in Reqs |-> IF observeAge /\ Ageing(r) THEN age[r] + TickMs ELSE age[r]]
    /\ timer' = [r \in Reqs |-> IF timer[r] >= 0 THEN timer[r] + TickMs ELSE timer[r]]
    /\ UNCHANGED <<reqIdent, reqPc, reqTunnel, reqAgent, pendingResponses, activeRequests,
                   responses, sysVars>>
    /\ UNCHANGED <<regVars, telVars>>

\* ------------------------------------------------------ SIGTERM / SIGINT

\* agents.forEach(ws => ws.close(1000, ...)): the sessions in the live map
InLiveMap(s) == \E t \in TunnelIds : agents[t] = s

\* signal handler: close all WebSocket connections, call prisma.$disconnect
ShutCloseAll ==
    /\ wsState' = [s \in Sessions |->
                      IF InLiveMap(s) /\ wsState[s] = "open" THEN "closing" ELSE wsState[s]]
    /\ closeCode' = [s \in Sessions |->
                       IF InLiveMap(s) /\ wsState[s] = "open" THEN CloseNormal ELSE closeCode[s]]

\* process.on('SIGTERM' / 'SIGINT'): with metrics in the buffer the handler
\* calls processMetricsBuffer and awaits it; with an empty buffer it goes on
\* to close the agent sessions and to call prisma.$disconnect.  atSignal
\* records the responders registered when the signal arrived.
Signal ==
    /\ Running
    /\ proc.shutdown = "none"
    /\ IF Len(metricsBuffer) > 0
       THEN /\ Len(flushes) < MaxFlushes
            /\ flushes' = FlushStart(flushes, metricsBuffer)
            /\ proc' = [proc EXCEPT !.shutdown = "flushing", !.flush = Len(flushes) + 1,
                                    !.atSignal = pendingResponses]
            /\ UNCHANGED <<wsState, closeCode>>
       ELSE /\ ShutCloseAll
            /\ proc' = [proc EXCEPT !.shutdown = "disconnecting", !.atSignal = pendingResponses]
            /\ UNCHANGED flushes
    /\ UNCHANGED <<agents, wsTunnelId, tunnelRecord, regPc, regMsg, closePc, frames, tunnelRow,
                   registers, evictedBy, dbFaulted, userRow>>
    /\ UNCHANGED <<reqIdent, reqPc, reqTunnel, reqAgent, pendingResponses, activeRequests, timer,
                   age, responses, daily, dailyStats, web>>
    /\ UNCHANGED <<fin, metricsBuffer, metricsOf, liveStats, logRows, hourNow, hourlyStats,
                   appended>>

\* the handler resumes from `await processMetricsBuffer()`: close all
\* WebSocket connections, call prisma.$disconnect
ShutAfterFlush ==
    /\ Running
    /\ proc.shutdown = "flushed"
    /\ ShutCloseAll
    /\ proc' = [proc EXCEPT !.shutdown = "disconnecting"]
    /\ UNCHANGED <<agents, wsTunnelId, tunnelRecord, regPc, regMsg, closePc, frames, tunnelRow,
                   registers, evictedBy, dbFaulted, userRow>>
    /\ UNCHANGED <<reqIdent, reqPc, reqTunnel, reqAgent, pendingResponses, activeRequests, timer,
                   age, responses, daily, dailyStats, web>>
    /\ UNCHANGED telVars

\* the handler resumes from `await prisma.$disconnect()`: the database
\* connection is released; server.close(callback) stops the listener
ShutDisconnected ==
    /\ Running
    /\ proc.shutdown = "disconnecting"
    /\ proc' = [proc EXCEPT !.shutdown = "closing", !.released = TRUE, !.listening = FALSE]
    /\ UNCHANGED <<reqIdent, reqPc, reqTunnel, reqAgent, pendingResponses, activeRequests, timer,
                   age, responses, daily, dailyStats, web>>
    /\ UNCHANGED <<regVars, telVars>>

\* the connection of public request r is still open: the request was
\* accepted and has neither its response nor an aborted stream
Connected(r) == reqPc[r] \in {"lookup", "buffering", "ended"} /\ responses[r] = << >>

\* the callback of server.close: every connection has ended, the public
\* ones and the upgraded agent transports; process.exit(0)
ServerClosed ==
    /\ Running
    /\ proc.shutdown = "closing"
    /\ \A r \in Reqs : ~ Connected(r)
    /\ \A s \in Sessions : wsState[s] \in {"none", "closed"}
    /\ proc' = [proc EXCEPT !.shutdown = "exit", !.exited = TRUE]
    /\ UNCHANGED <<reqIdent, reqPc, reqTunnel, reqAgent, pendingResponses, activeRequests, timer,
                   age, responses, daily, dailyStats, web>>
    /\ UNCHANGED <<regVars, telVars>>

\* session 1 has registered tunnel 1 with subdomain sub on a fresh database
\* (a state SpecRegistry reaches); the other transports are connected
Registered(sub) ==
    /\ agents = [t \in TunnelIds |-> IF t = 1 THEN 1 ELSE NoSession]
    /\ wsState = [s \in Sessions |-> "open"]
    /\ closeCode = [s \in Sessions |-> 0]
    /\ wsTunnelId = [s \in Sessions |-> IF s = 1 THEN 1 ELSE NoTunnel]
    /\ tunnelRecord = [s \in Sessions |-> IF s = 1 THEN 1 ELSE NoTunnel]
    /\ regPc = [s \in Sessions |-> "idle"]
    /\ regMsg = [s \in Sessions |->
                   IF s = 1
                   THEN [NoMsg EXCEPT !.agentId = 1, !.userId = 1,
                                      !.subdomain = IF sub = 1 THEN NoTunnel ELSE sub]
                   ELSE NoMsg]
    /\ closePc = [s \in Sessions |-> "none"]
    /\ frames = [s \in Sessions |-> IF s = 1 THEN {"registered"} ELSE {}]
    /\ tunnelRow = [t \in TunnelIds |->
                      IF t = 1 THEN [exists |-> TRUE, isActive |-> TRUE, subdomain |-> sub,
                                     userId |-> 1]
                      ELSE AbsentRow]
    /\ registers = 1
    /\ evictedBy = [s \in Sessions |-> NoSession]
    /\ dbFaulted = FALSE
    /\ userRow = TRUE

\* the registration used the default subdomain, the tunnel id
InitRegistered == Registered(1)

AgentCodes == {0, 500, 99}

\* the registered agent answers with a well-formed response frame
GoodResponse(id, statusCode) == AgentResponse(1, id, statusCode, TRUE, FALSE)

\* a public request for tunnel 1 arrives
GoodIngress(r) == Ingress(r, 1)

\* the request frame goes out on the agent transport
GoodBodyEnd(r) == BodyEnd(r, FALSE)

MuxStep ==
    \/ \E r \in Reqs, identifier \in 0..NumTunnels : Ingress(r, identifier)
    \/ \E r \in Reqs : Dispatch(r)
    \/ \E r \in Reqs, sendThrows \in BOOLEAN : BodyEnd(r, sendThrows)
    \/ \E r \in Reqs : ReqError(r)
    \/ \E r \in Reqs : TimeoutFire(r)
    \/ \E s \in Sessions, id \in Reqs, c \in AgentCodes, h \in BOOLEAN, st \in BOOLEAN :
          AgentResponse(s, id, c, h, st)
    \/ \E s \in Sessions :
          wsTunnelId[s] # NoTunnel /\ ClientClose(s) /\ UNCHANGED <<muxVars, telVars>>
    \/ \E s \in Sessions : CloseEvent(s) /\ UNCHANGED <<muxVars, telVars>>
    \/ \E s \in Sessions : CloseUpdate(s) /\ UNCHANGED <<muxVars, telVars>>

MuxNext == MuxStep \/ Tick(FALSE)

\* request multiplexer: every client and agent behaviour, the agent transport
\* may close; the storeRespData invocations it starts are not resumed
InitServing == InitRegistered /\ InitMuxVars /\ InitTelVars

SpecMux == InitServing /\ [][MuxNext]_vars

\* registration on a serving server: session 1 holds tunnel 1 under its
\* default or an explicit subdomain, the other transports are connected and
\* have not registered yet; register frames arrive and their handlers run
InitReregister == (\E sub \in TunnelIds : Registered(sub)) /\ InitMuxVars /\ InitTelVars

SpecReregister == InitReregister /\ [][RegisterStep /\ UNCHANGED <<muxVars, telVars>>]_vars

\* frames an agent can send besides register frames and response frames
\* for a public request: text that is not JSON, the JSON value null, a JSON
\* number, response frames whose id is missing, a number or an unknown
\* string, a ping, a frame of unknown type
OtherFrames == {"not json", "null", "number", "response without id", "response numeric id",
                "response unknown id", "ping", "unknown type"}

\* message handler on such a frame.  JSON.parse throws inside the try: an
\* error frame is sent.  On null, msg.type throws a TypeError; on a response
\* frame that matches no responder and whose id is not a string,
\* id.substring throws one in the else branch.  The handler is an async
\* function nobody awaits: the rejection reaches the unhandledRejection
\* handler, which calls process.exit(1).
FrameRecv(s, frame) ==
    /\ Running
    /\ wsState[s] = "open"
    /\ IF frame = "not json"
       THEN frames' = WsSend(wsState, frames, s, "error") /\ UNCHANGED proc
       ELSE IF frame \in {"null", "response without id", "response numeric id"}
       THEN proc' = [proc EXCEPT !.exited = TRUE] /\ UNCHANGED frames
       ELSE IF frame = "ping"
       THEN frames' = WsSend(wsState, frames, s, "pong") /\ UNCHANGED proc
       ELSE UNCHANGED <<frames, proc>>
    /\ UNCHANGED <<agents, wsState, closeCode, wsTunnelId, tunnelRecord, regPc, regMsg, closePc,
                   tunnelRow, registers, evictedBy, dbFaulted, userRow>>
    /\ UNCHANGED <<reqIdent, reqPc, reqTunnel, reqAgent, pendingResponses, activeRequests, timer,
                   age, responses, daily, dailyStats, web>>
    /\ UNCHANGED telVars

\* the frames of the serving agent session: register frames and their
\* handler's database steps, response frames for the public requests
\* forwarded to its tunnel, and every other frame
FramesNext ==
    \/ \E frame \in OtherFrames : FrameRecv(1, frame)
    \/ \E t \in TunnelIds, token \in Tokens, sub \in {NoTunnel} \cup TunnelIds :
          RegisterRecv(1, t, JwtVerify(token), sub) /\ UNCHANGED <<muxVars, telVars>>
    \/ RegEvict(1) /\ UNCHANGED <<muxVars, telVars>>
    \/ RegFindTunnel(1) /\ UNCHANGED <<muxVars, telVars>>
    \/ RegFindConflict(1) /\ UNCHANGED <<muxVars, telVars>>
    \/ RegGenSubdomain(1) /\ UNCHANGED <<muxVars, telVars>>
    \/ \E f \in BOOLEAN : RegUpsert(1, f) /\ UNCHANGED <<muxVars, telVars>>
    \/ \E r \in Reqs : GoodIngress(r)
    \/ \E r \in Reqs : Dispatch(r)
    \/ \E r \in Reqs : GoodBodyEnd(r)
    \/ \E id \in Reqs : GoodResponse(id, 0)

SpecFrames == InitReregister /\ [][FramesNext]_vars

\* a second agent registers while session 1 serves tunnel 1: the register
\* handler of session 2, the close handlers of both sessions, and public
\* requests for tunnel 1 up to the sending of their request frame
HandoverNext ==
    \/ \E t \in TunnelIds, token \in Tokens, sub \in {NoTunnel} \cup TunnelIds :
          RegisterRecv(2, t, JwtVerify(token), sub) /\ UNCHANGED <<muxVars, telVars>>
    \/ RegEvict(2) /\ UNCHANGED <<muxVars, telVars>>
    \/ RegFindTunnel(2) /\ UNCHANGED <<muxVars, telVars>>
    \/ RegFindConflict(2) /\ UNCHANGED <<muxVars, telVars>>
    \/ RegGenSubdomain(2) /\ UNCHANGED <<muxVars, telVars>>
    \/ \E f \in BOOLEAN : RegUpsert(2, f) /\ UNCHANGED <<muxVars, telVars>>
    \/ \E s \in Sessions : CloseEvent(s) /\ UNCHANGED <<muxVars, telVars>>
    \/ \E s \in Sessions : CloseUpdate(s) /\ UNCHANGED <<muxVars, telVars>>
    \/ \E r \in Reqs : GoodIngress(r)
    \/ \E r \in Reqs : Dispatch(r)
    \/ \E r \in Reqs, sendThrows \in BOOLEAN : BodyEnd(r, sendThrows)

SpecHandover == InitReregister /\ [][HandoverNext]_vars

\* a second agent, authenticated as any user, registers while session 1 of
\* user 1 serves tunnel 1, a tunnel that user 1 owns
OwnershipNext ==
    \/ \E t \in TunnelIds, token \in Tokens, sub \in {NoTunnel} \cup TunnelIds :
          RegisterFrame(2, t, token, sub)
    \/ RegEvict(2)
    \/ RegFindTunnel(2)
    \/ RegFindConflict(2)
    \/ RegGenSubdomain(2)
    \/ \E f \in BOOLEAN : RegUpsert(2, f)
    \/ \E s \in Sessions : ClientClose(s)
    \/ \E s \in Sessions : CloseEvent(s)
    \/ \E s \in Sessions : CloseUpdate(s)

SpecOwnership == InitReregister /\ [][OwnershipNext /\ UNCHANGED <<muxVars, telVars>>]_vars

\* Tunnel tables a database can hold: subdomain is unique among the rows
TunnelTables ==
    {rows \in [TunnelIds -> {AbsentRow} \cup
                                [exists : {TRUE}, isActive : BOOLEAN, subdomain : TunnelIds,
                                 userId : {1}]] :
        \A t, o \in TunnelIds :
            (t # o /\ rows[t].exists /\ rows[o].exists) => rows[t].subdomain # rows[o].subdomain}

\* a server that has been running against a database earlier runs have
\* written: any Tunnel table, isActive as earlier sessions left it, any
\* connected sessions in the live map under ids that have a row
InitDispatch ==
    /\ tunnelRow \in TunnelTables
    /\ agents \in {a \in [TunnelIds -> {NoSession} \cup Sessions] :
                      \A t \in TunnelIds : a[t] # NoSession => tunnelRow[t].exists}
    /\ wsState = [s \in Sessions |-> "open"]
    /\ closeCode = [s \in Sessions |-> 0]
    /\ wsTunnelId = [s \in Sessions |->
                       IF \E t \in TunnelIds : agents[t] = s
                       THEN CHOOSE t \in TunnelIds : agents[t] = s ELSE NoTunnel]
    /\ tunnelRecord = wsTunnelId
    /\ regPc = [s \in Sessions |-> "idle"]
    /\ regMsg = [s \in Sessions |->
                   [NoMsg EXCEPT !.agentId = wsTunnelId[s],
                                 !.userId = IF wsTunnelId[s] = NoTunnel THEN NoUser ELSE 1]]
    /\ closePc = [s \in Sessions |-> "none"]
    /\ frames = [s \in Sessions |-> IF wsTunnelId[s] # NoTunnel THEN {"registered"} ELSE {}]
    /\ registers = 0
    /\ evictedBy = [s \in Sessions |-> NoSession]
    /\ dbFaulted = FALSE
    /\ userRow = TRUE
    /\ InitMuxVars
    /\ InitTelVars

DispatchNext ==
    \/ \E r \in Reqs, identifier \in 0..NumTunnels : Ingress(r, identifier)
    \/ \E r \in Reqs : Dispatch(r)

\* the public front-end up to the forwarding decision
SpecDispatch == InitDispatch /\ [][DispatchNext]_vars

\* the front-end under the event loop: a handler awaiting the tunnel lookup
\* resumes
SpecDispatchLive ==
    InitDispatch /\ [][DispatchNext]_vars /\ WF_vars(\E r \in Reqs : Dispatch(r))

DeadlineNext == MuxStep \/ Tick(TRUE)

\* the request multiplexer with the time since ingress of each request observed
SpecDeadline == InitServing /\ [][DeadlineNext]_vars

FinRecs == [id : Reqs, statusCode : {200, 400, 500, 504}, stage : {"country", "live", "log"}]

TelemetryNext ==
    \/ \E r \in Reqs : GoodIngress(r)
    \/ \E r \in Reqs : Dispatch(r)
    \/ \E r \in Reqs, sendThrows \in BOOLEAN : BodyEnd(r, sendThrows)
    \/ \E r \in Reqs : ReqError(r)
    \/ \E r \in Reqs : TimeoutFire(r)
    \/ \E id \in Reqs, c \in {200, 500} : GoodResponse(id, c)
    \/ Tick(FALSE)
    \/ \E x \in FinRecs : FinCountry(x)
    \/ \E x \in FinRecs : FinLive(x)
    \/ \E x \in FinRecs : FinLog(x)
    \/ ClientClose(1) /\ UNCHANGED <<muxVars, telVars>>

\* telemetry of forwarded requests: requests for the registered tunnel, a
\* well-formed agent, every way a forwarded request completes
SpecTelemetry == InitServing /\ [][TelemetryNext]_vars

\* the event loop runs every callback that is due: a handler suspended at
\* an await resumes, time passes, a timer that is due fires.  Nothing
\* obliges the client to end its request stream or the agent to answer.
TelemetryFairness ==
    /\ WF_vars(\E r \in Reqs : Dispatch(r))
    /\ WF_vars(\E r \in Reqs : TimeoutFire(r))
    /\ WF_vars(Tick(FALSE))
    /\ WF_vars(\E x \in FinRecs : FinCountry(x))
    /\ WF_vars(\E x \in FinRecs : FinLive(x))
    /\ WF_vars(\E x \in FinRecs : FinLog(x))

SpecTelemetryLive == InitServing /\ [][TelemetryNext]_vars /\ TelemetryFairness

MetricsNext ==
    \/ \E r \in Reqs : GoodIngress(r)
    \/ \E r \in Reqs : Dispatch(r)
    \/ \E r \in Reqs : GoodBodyEnd(r)
    \/ \E id \in Reqs, c \in {200, 500} : GoodResponse(id, c)
    \/ \E x \in FinRecs : FinCountry(x)
    \/ \E x \in FinRecs : FinLive(x)
    \/ \E x \in FinRecs : FinLog(x)
    \/ FlushTick
    \/ \E i \in 1..MaxFlushes : GoodFlushStep(i)

\* n requests for tunnel 1 were answered 200 and finalized since the last flush
Preloaded(n) ==
    [i \in 1..n |-> [tunnelId |-> 1, path |-> 1, method |-> "GET", country |-> "LOCAL",
                     clientIp |-> 1, statusCode |-> 200, timestamp |-> StartHour]]

InitMetrics ==
    /\ fin = EmptyBag
    /\ metricsOf = [r \in Reqs |-> 0]
    /\ logRows = [r \in Reqs |-> 0]
    /\ hourNow = StartHour
    /\ flushes = << >>
    /\ hourlyStats = << >>
    /\ \E n \in {0, BufferThreshold - 1} :
          /\ metricsBuffer = Preloaded(n)
          /\ appended = IF n = 0 THEN << >> ELSE (<<1, StartHour>> :> n)
          /\ liveStats = [t \in TunnelIds |->
                IF t = 1 /\ n > 0
                THEN [exists |-> TRUE, requestsLast5Min |-> n, requestsLast1Hour |-> n,
                      errorRate |-> 0]
                ELSE NoLiveRow]

\* metrics buffer and hourly rollup: requests that the agent answers
InitBuffered == InitRegistered /\ InitMuxVars /\ InitMetrics

SpecMetrics == InitBuffered /\ [][MetricsNext]_vars

RollupNext ==
    \/ FlushTick
    \/ \E i \in 1..MaxFlushes, dbFails \in BOOLEAN : FlushStep(i, dbFails)

\* hour a is not after hour b
NotAfter(a, b) == a.year < b.year \/ (a.year = b.year /\ a.rest <= b.rest)

\* the buffers storeRespData can have filled: metrics of any tunnels at any
\* hours, in the order of their timestamps
Buffers ==
    UNION {{buf \in [1..n -> [tunnelId : TunnelIds, path : {1}, method : {"GET"},
                                country : {"LOCAL"}, clientIp : {1}, statusCode : {200},
                                timestamp : Hours]] :
               \A i \in 1..(n - 1) : NotAfter(buf[i].timestamp, buf[i + 1].timestamp)} :
           n \in 1..MaxBuffered}

\* every tunnel has registered and disconnected; the requests it served
\* are finalized and their metrics, one of the buffers bufs, wait in the
\* buffer; earlier flushes have left one of the HourlyStats tables
FlushableOn(bufs, tables) ==
    /\ InitRegistry
    /\ tunnelRow = [t \in TunnelIds |-> StoppedRow(t)]
    /\ userRow = TRUE
    /\ InitMuxVars
    /\ fin = EmptyBag
    /\ metricsOf = [r \in Reqs |-> 0]
    /\ logRows = [r \in Reqs |-> 0]
    /\ flushes = << >>
    /\ hourlyStats \in tables
    /\ metricsBuffer \in bufs
    /\ hourNow = metricsBuffer[Len(metricsBuffer)].timestamp
    /\ appended = [k \in {<<metricsBuffer[i].tunnelId, metricsBuffer[i].timestamp>> :
                              i \in DOMAIN metricsBuffer} |->
                      Cardinality({i \in DOMAIN metricsBuffer :
                          <<metricsBuffer[i].tunnelId, metricsBuffer[i].timestamp>> = k})]
    /\ liveStats = [t \in TunnelIds |->
          LET n == Cardinality({i \in DOMAIN metricsBuffer : metricsBuffer[i].tunnelId = t})
          IN  IF n = 0 THEN NoLiveRow
              ELSE [exists |-> TRUE, requestsLast5Min |-> n, requestsLast1Hour |-> n,
                    errorRate |-> Cardinality({i \in DOMAIN metricsBuffer :
                                      /\ metricsBuffer[i].tunnelId = t
                                      /\ metricsBuffer[i].statusCode >= 400})]]

\* the same before the first flush
Flushable(bufs) == FlushableOn(bufs, {<< >>})

InitRollup == Flushable(Buffers)

\* hourly rollup of a buffer holding metrics of any tunnel and hour
SpecRollup == InitRollup /\ [][RollupNext]_vars

\* status codes of the responses: 200, 400, 202, 402, ...
StatusOf(k) == IF k % 2 = 0 THEN 200 + k ELSE 399 + k

\* country codes getCountryFromIP returns
CountryCodes == <<"LOCAL", "UNKNOWN", "IN", "US", "DE", "FR", "GB", "JP", "BR", "CA", "AU",
                  "NL", "SE", "ES">>

\* n metrics of tunnel 1 in one hour, with d different status codes and p
\* different paths and countries
Batch(n, d, p) ==
    [i \in 1..n |-> [tunnelId |-> 1, path |-> i % p, method |-> "GET",
                     country |-> CountryCodes[(i % p) + 1], clientIp |-> 1,
                     statusCode |-> StatusOf(i % d), timestamp |-> StartHour]]

Batches == {Batch(n, d, p) : n \in 1..MaxGroup, d \in 1..MaxGroup, p \in 1..MaxGroup}

InitBatch == Flushable(Batches)

\* hourly rollup of one group of up to MaxGroup metrics
SpecBatch == InitBatch /\ [][RollupNext]_vars

\* batches of tunnel 1 in one hour, from any client addresses
IpBuffers ==
    UNION {[1..n -> [tunnelId : {1}, path : {1}, method : {"GET"}, country : {"LOCAL"},
                     clientIp : Ips, statusCode : {200}, timestamp : {StartHour}]] :
           n \in 1..MaxBuffered}

\* the HourlyStats table after the flush of one such batch
EarlierTables == {HourlyUpsert(<< >>, HourKey(buf[1]), buf) : buf \in IpBuffers}

InitUnique == FlushableOn(IpBuffers, EarlierTables)

\* a second batch of an hour is flushed into the row the first one created
SpecUnique == InitUnique /\ [][RollupNext]_vars

\* ------------------------------------------------ rateLimit (web backend)

\* rateLimit(request, limit, windowMs) at time `now` on the map `map`: expired
\* entries are deleted, then the caller's entry decides
RateLimit(map, ip, limit, windowMs, now) ==
    LET windowStart == now - windowMs
        cleaned == [key \in DOMAIN map |->
                       IF map[key].present /\ map[key].resetTime < windowStart
                       THEN NoEntry ELSE map[key]]
        current == cleaned[ip]
    IN  IF ~ current.present \/ current.resetTime < windowStart
        THEN [map |-> [cleaned EXCEPT ![ip] = [present |-> TRUE, count |-> 1,
                                                resetTime |-> now + windowMs]],
              success |-> TRUE, remaining |-> limit - 1]
        ELSE IF current.count >= limit
             THEN [map |-> cleaned, success |-> FALSE, remaining |-> 0]
             ELSE [map |-> [cleaned EXCEPT ![ip].count = @ + 1],
                   success |-> TRUE, remaining |-> limit - (current.count + 1)]

\* a request of address ip reaches an endpoint's handler, which calls
\* rateLimit with its own limit; the admission is recorded with its time
RateLimitCall(ip, endpoint) ==
    /\ web.calls < MaxCalls
    /\ LET result == RateLimit(web.rateLimitMap, ip, LimitOf(endpoint), WindowMs, web.now)
       IN  web' = [web EXCEPT !.rateLimitMap = result.map,
                              !.calls = @ + 1,
                              !.admitted[<<ip, endpoint>>] =
                                  IF result.success THEN Append(@, web.now) ELSE @,
                              !.last = [ip |-> ip, endpoint |-> endpoint,
                                        success |-> result.success]]
    /\ UNCHANGED <<proc, daily, dailyStats>>
    /\ UNCHANGED <<reqIdent, reqPc, reqTunnel, reqAgent, pendingResponses, activeRequests, timer,
                   age, responses>>
    /\ UNCHANGED <<regVars, telVars>>

\* Date.now() of the web backend advances
WebTick ==
    /\ web.now + WebTickMs <= WebMaxMs
    /\ web' = [web EXCEPT !.now = @ + WebTickMs]
    /\ UNCHANGED <<proc, daily, dailyStats>>
    /\ UNCHANGED <<reqIdent, reqPc, reqTunnel, reqAgent, pendingResponses, activeRequests, timer,
                   age, responses>>
    /\ UNCHANGED <<regVars, telVars>>

LimiterNext ==
    \/ \E ip \in Addresses, endpoint \in Endpoints : RateLimitCall(ip, endpoint)
    \/ WebTick

SpecLimiter == InitServer /\ [][LimiterNext]_vars

ShutdownNext ==
    \/ \E r \in Reqs : GoodIngress(r)
    \/ \E r \in Reqs : Dispatch(r)
    \/ \E r \in Reqs : GoodBodyEnd(r)
    \/ \E id \in Reqs : GoodResponse(id, 0)
    \/ \E r \in Reqs : TimeoutFire(r)
    \/ Tick(FALSE)
    \/ \E s \in Sessions : ClientClose(s) /\ UNCHANGED <<muxVars, telVars>>
    \/ \E s \in Sessions : CloseEvent(s) /\ UNCHANGED <<muxVars, telVars>>
    \/ \E s \in Sessions : CloseUpdate(s) /\ UNCHANGED <<muxVars, telVars>>
    \/ \E i \in 1..MaxFlushes : GoodFlushStep(i)
    \/ Signal
    \/ ShutAfterFlush
    \/ ShutDisconnected
    \/ ServerClosed

\* the registered server with an empty metrics buffer or one metric in it
InitShutdown ==
    /\ InitRegistered
    /\ InitMuxVars
    /\ fin = EmptyBag
    /\ metricsOf = [r \in Reqs |-> 0]
    /\ logRows = [r \in Reqs |-> 0]
    /\ hourNow = StartHour
    /\ flushes = << >>
    /\ hourlyStats = << >>
    /\ \E n \in {0, 1} :
          /\ metricsBuffer = Preloaded(n)
          /\ appended = IF n = 0 THEN << >> ELSE (<<1, StartHour>> :> n)
          /\ liveStats = [t \in TunnelIds |->
                IF t = 1 /\ n > 0
                THEN [exists |-> TRUE, requestsLast5Min |-> n, requestsLast1Hour |-> n,
                      errorRate |-> 0]
                ELSE NoLiveRow]

\* graceful shutdown of a server with one registered agent and public
\* requests in every stage
SpecShutdown == InitShutdown /\ [][ShutdownNext]_vars

\* time zones of the server: UTC, and one east of it
TimeZones == {0, 5}

\* a HourlyStats row as a first flush of n successful requests creates it
HourlyRow(n) ==
    [totalRequests |-> n, successRequests |-> n, errorRequests |-> 0, uniqueIps |-> 1,
     topPaths |-> << <<<<"GET", 1>>, n>> >>, topCountries |-> << <<"LOCAL", n>> >>,
     statusCodes |-> (200 :> n), ips |-> {1}]

\* hours around the second day of the year in time zone tz: the last hour
\* of the first day, the first, second and last hour of the second day, the
\* first hour of the third
DayHours(tz) == {[year |-> StartHour.year, rest |-> 24 + o - tz] : o \in {-1, 0, 1, 23, 24}}

\* HourlyStats tables of up to MaxRows rows at those hours
DailyTables(tz) ==
    UNION {[keys -> {HourlyRow(n) : n \in 1..MaxTotal}] :
              keys \in {ks \in SUBSET (TunnelIds \X DayHours(tz)) : Cardinality(ks) <= MaxRows}}

\* it is midnight, server time, at the start of the third day; the flushes
\* of the days before have written their rows
InitDaily ==
    /\ InitRegistry
    /\ tunnelRow = [t \in TunnelIds |-> StoppedRow(t)]
    /\ userRow = TRUE
    /\ InitReqVars
    /\ proc = ProcStarted
    /\ web = WebIdle
    /\ dailyStats = << >>
    /\ daily \in {[DailyIdle EXCEPT !.tz = tz] : tz \in TimeZones}
    /\ fin = EmptyBag
    /\ metricsBuffer = << >>
    /\ metricsOf = [r \in Reqs |-> 0]
    /\ liveStats = [t \in TunnelIds |-> NoLiveRow]
    /\ logRows = [r \in Reqs |-> 0]
    /\ hourNow = [year |-> StartHour.year, rest |-> 48 - daily.tz]
    /\ flushes = << >>
    /\ hourlyStats \in DailyTables(daily.tz)
    /\ appended = [k \in DOMAIN hourlyStats |-> hourlyStats[k].totalRequests]

DailyNext ==
    \/ DailyStart
    \/ \E order \in UNION {[1..n -> DOMAIN hourlyStats] : n \in 0..MaxRows} :
          DailyRead(order)
    \/ DailyUpsert

\* the daily rollup of the rows of one day
SpecDaily == InitDaily /\ [][DailyNext]_vars

\* ---------------------------------------------------------------- claims

\* S2's register handler evicted S1 from tunnel t, has finished with success,
\* and S2 is still connected.
Replaced(s1, s2, t) ==
    /\ s1 # s2
    /\ evictedBy[s1] = s2
    /\ tunnelRecord[s1] = t
    /\ tunnelRecord[s2] = t
    /\ wsTunnelId[s2] = t
    /\ regPc[s1] = "idle"
    /\ regPc[s2] = "idle"
    /\ wsState[s2] = "open"
    /\ ~ dbFaulted

\* C1: duplicate registration.  When S2's register handler has evicted S1
\* from tunnel t and finished, S1 was closed with code 4002, S2 has received
\* a registered frame, and once S1's close handler has finished too the
\* registry maps t to S2.
C1_DuplicateRegistration ==
    \A s1, s2 \in Sessions, t \in TunnelIds :
        Replaced(s1, s2, t) =>
            /\ closeCode[s1] = CloseDuplicate
            /\ "registered" \in frames[s2]
            /\ closePc[s1] = "done" => agents[t] = s2

\* C2: at most one session per tunnel id.  In no state does the map hold a
\* session for t while another transport that registered t before it is
\* still open and has not been sent close 4002.
C2_PriorClosedBeforeInstall ==
    \A s1, s2 \in Sessions, t \in TunnelIds :
        (s1 # s2 /\ agents[t] = s2 /\ tunnelRecord[s1] = t /\ wsTunnelId[s1] = t)
            => (wsState[s1] # "open" \/ closeCode[s1] = CloseDuplicate)

\* no register or close handler is part-way through, no close event is due
Quiescent ==
    \A s \in Sessions :
        /\ regPc[s] = "idle"
        /\ closePc[s] \in {"none", "done"}
        /\ wsState[s] # "closing"

HasLiveSession(t) == agents[t] # NoSession /\ wsState[agents[t]] = "open"

\* C10: in every quiescent state the registry holds a live session for t iff
\* the Tunnel row t has isActive = true; after S2 replaced S1 on t and S1's
\* close handler ran, the row is still isActive = true.
C10_RegistryMatchesIsActive ==
    (Quiescent /\ ~ dbFaulted) =>
        /\ \A t \in TunnelIds : HasLiveSession(t) <=> tunnelRow[t].isActive
        /\ \A s1, s2 \in Sessions, t \in TunnelIds :
              (Replaced(s1, s2, t) /\ closePc[s1] = "done") => tunnelRow[t].isActive

\* C11: closing a registered session is atomic for dispatch.  No request is
\* dispatched to a session whose transport has closed, and when the close
\* handler of a registered session finishes the row has isActive = false.
C11_CloseAtomicForDispatch ==
    [][/\ \A r \in Reqs :
             (reqPc[r] = "lookup" /\ reqPc'[r] = "buffering") =>
                 wsState[reqAgent'[r]] # "closed"
       /\ \A s \in Sessions :
             (closePc[s] = "update" /\ closePc'[s] = "done") =>
                 ~ tunnelRow'[tunnelRecord[s]].isActive]_vars

\* C12: a register frame whose token fails verification closes the session
\* with 4001, changes no User or Tunnel row, leaves the live map as it is
\* and closes no other session.
C12_BadTokenNoEffect ==
    [][\A s \in Sessions, t \in TunnelIds, sub \in {NoTunnel} \cup TunnelIds :
          RegisterRecv(s, t, FALSE, sub) =>
              /\ closeCode'[s] = CloseAuthFailed
              /\ wsState'[s] = "closing"
              /\ UNCHANGED <<agents, tunnelRow, userRow>>
              /\ \A o \in Sessions \ {s} :
                    wsState'[o] = wsState[o] /\ closeCode'[o] = closeCode[o]]_vars

\* a session was refused with 4001 while another session is live in the map
C12_Witness ==
    \E s \in Sessions, t \in TunnelIds :
        /\ closeCode[s] = CloseAuthFailed
        /\ agents[t] \notin {NoSession, s}
        /\ wsState[agents[t]] = "open"

\* the register handler of s is at the subdomain check and finds its desired
\* subdomain owned by another tunnel
AtConflict(s) ==
    /\ regPc[s] = "findConflict"
    /\ SubdomainConflict(tunnelRow, DesiredSubdomain(s), wsTunnelId[s])

\* C13: a register frame with an explicit subdomain that another tunnel owns
\* fails with close 4003, and that registration created or updated no User
\* and no Tunnel row.
C13_ExplicitConflictNoMutation ==
    [][\A s \in Sessions :
          (AtConflict(s) /\ regMsg[s].subdomain # NoTunnel /\ RegFindConflict(s)) =>
              /\ wsState[s] = "open" => closeCode'[s] = CloseRegFailed
              /\ ~ regMsg[s].createdUser
              /\ UNCHANGED tunnelRow]_vars

\* C14: a register frame without a subdomain, whose default subdomain is owned
\* by another tunnel, succeeds: when its handler finishes the session is not
\* closed, it has received a registered frame, it is in the live map, and
\* its row holds a subdomain no other tunnel owns.
C14_GeneratedSubdomainSucceeds ==
    [][\A s \in Sessions :
          (regPc[s] = "genSubdomain" /\ regPc'[s] = "idle" /\ wsState[s] = "open") =>
              /\ wsState'[s] = "open"
              /\ "registered" \in frames'[s]
              /\ agents'[wsTunnelId[s]] = s
              /\ tunnelRow'[wsTunnelId[s]].exists
              /\ ~ SubdomainConflict(tunnelRow', tunnelRow'[wsTunnelId[s]].subdomain,
                                     wsTunnelId[s])]_vars

\* C15: when the upsert of the tunnel row fails, the session gets an error
\* frame and close 4003, and its handler has closed or removed no live
\* session: the step leaves the map alone and no eviction went before it.
C15_UpsertFailureKeepsMap ==
    [][\A s \in Sessions :
          RegUpsert(s, TRUE) =>
              /\ wsState[s] = "open" =>
                    (closeCode'[s] = CloseRegFailed /\ "error" \in frames'[s])
              /\ UNCHANGED agents
              /\ ~ regMsg[s].evicted]_vars

\* the tunnel a lookup by subdomain first, then by id, selects
Resolved(rows, identifier) ==
    IF \E t \in TunnelIds : rows[t].exists /\ rows[t].subdomain = identifier
    THEN CHOOSE t \in TunnelIds : rows[t].exists /\ rows[t].subdomain = identifier
    ELSE IF identifier \in TunnelIds /\ rows[identifier].exists THEN identifier ELSE NoTunnel

C17_RejectedNoTelemetry ==
    [][\A r \in Reqs :
          (reqPc[r] # "rejected" /\ reqPc'[r] = "rejected") =>
              /\ responses'[r] \in {<<400>>, <<404>>, <<503>>, <<502>>}
              /\ r \notin activeRequests'
              /\ UNCHANGED <<activeRequests, telVars>>]_vars

\* one request was rejected for an inactive tunnel, another for a tunnel
\* without a session
C17_Witness ==
    \E r1, r2 \in Reqs :
        /\ reqPc[r1] = "rejected" /\ responses[r1] = <<503>>
        /\ reqPc[r2] = "rejected" /\ responses[r2] = <<502>>

\* C18: a response frame fulfils exactly the responder whose request id it
\* carries.  A frame for id with a registered responder, acceptable headers
\* and a valid status writes that status to request id and unregisters it;
\* no frame for id changes the response, responder or timeout of another
\* request.
C18_ResponseMatchesById ==
    [][\A id \in Reqs :
          /\ \A c \in AgentCodes \ {99} :
                \/ id \notin pendingResponses
                \/ /\ responses'[id] = <<IF c = 0 THEN 200 ELSE c>>
                   /\ id \notin pendingResponses'
                \/ \A s \in Sessions, st \in BOOLEAN : ~ AgentResponse(s, id, c, TRUE, st)
          /\ \/ \A q \in Reqs \ {id} :
                    /\ responses'[q] = responses[q]
                    /\ (q \in pendingResponses') <=> (q \in pendingResponses)
                    /\ timer'[q] = timer[q]
             \/ \A s \in Sessions, c \in AgentCodes, h \in BOOLEAN, st \in BOOLEAN :
                    ~ AgentResponse(s, id, c, h, st)]_vars

\* two requests forwarded to the same tunnel; the later one has its response
\* while the earlier one is still waiting
C18_Witness ==
    \E r1, r2 \in Reqs :
        /\ r1 < r2
        /\ reqTunnel[r1] = reqTunnel[r2]
        /\ r1 \in pendingResponses
        /\ reqPc[r2] = "ended" /\ responses[r2] = <<200>>

C22_TopKWellFormed ==
    \A k \in DOMAIN hourlyStats :
        LET row == hourlyStats[k]
            Descending(entries) ==
                \A n \in 1..(Len(entries) - 1) : entries[n][2] >= entries[n + 1][2]
        IN  /\ Len(row.topPaths) <= TopK
            /\ Len(row.topCountries) <= TopK
            /\ Cardinality(DOMAIN row.statusCodes) <= TopK
            /\ Descending(row.topPaths)
            /\ Descending(row.topCountries)

\* C23: partial database failure.  The metrics of a group whose write
\* failed remain buffered: every metric that was appended for a key is
\* either counted in the row of its key or still in the buffer.
C23_FailedGroupStaysBuffered ==
    \A k \in DOMAIN appended :
        appended[k] <=
            (IF k \in DOMAIN hourlyStats THEN hourlyStats[k].totalRequests ELSE 0)
            + Cardinality({i \in DOMAIN metricsBuffer :
                              <<metricsBuffer[i].tunnelId, metricsBuffer[i].timestamp>> = k})

\* C24: an exception raised inside the flush path does not terminate the
\* server process.
C24_FlushNeverExits == ~ proc.exited

\* C25: peak hour.  When the daily rollup has finished, every tunnel with
\* HourlyStats rows in the rolled-up day has a DailyStats row for that day,
\* whose peakHour is in 0..23 and is the hour of the day of one of the
\* tunnel's hourly rows of that day with the greatest totalRequests.
C25_PeakHourIsArgmax ==
    daily.pc = "done" =>
        \A t \in TunnelIds :
            LET inDay == {k \in DOMAIN hourlyStats :
                             /\ k[1] = t
                             /\ k[2].rest + daily.tz >= 24 * daily.date
                             /\ k[2].rest + daily.tz < 24 * (daily.date + 1)}
            IN  inDay # {} =>
                  /\ <<t, daily.date>> \in DOMAIN dailyStats
                  /\ dailyStats[<<t, daily.date>>].peakHour \in 0..23
                  /\ \E k \in inDay :
                        /\ k[2].rest + daily.tz - 24 * daily.date
                              = dailyStats[<<t, daily.date>>].peakHour
                        /\ \A o \in inDay :
                              hourlyStats[o].totalRequests <= hourlyStats[k].totalRequests

\* a finished rollup of a tunnel with two hourly rows of different counts,
\* the later one the greater
C25_Witness ==
    /\ daily.pc = "done"
    /\ \E k, o \in DOMAIN hourlyStats :
          /\ k[1] = o[1]
          /\ k[2].rest < o[2].rest
          /\ hourlyStats[k].totalRequests < hourlyStats[o].totalRequests
          /\ <<k[1], daily.date>> \in DOMAIN dailyStats
          /\ dailyStats[<<k[1], daily.date>>].peakHour = GetHours(o[2], daily.tz)
          /\ dailyStats[<<k[1], daily.date>>].peakHour # GetHours(k[2], daily.tz)

\* C26: on SIGINT/SIGTERM every responder registered in the correlation
\* map when the signal arrives has been fulfilled with 503 by the time the
\* process exits.
C26_ShutdownFulfils503 ==
    (proc.exited /\ proc.shutdown = "exit") =>
        \A r \in proc.atSignal : responses[r] = <<503>>

\* C27: shutdown order.  Once a signal handler has begun, no public request
\* is accepted; the agent sessions are closed only after the flush the
\* handler started has returned; and no database write (a flush upsert, the
\* isActive = false update of a close handler) is issued after the
\* database connection was released.
C27_ShutdownOrder ==
    [][/\ \A r \in Reqs, identifier \in 0..NumTunnels :
             Ingress(r, identifier) => proc.shutdown = "none"
       /\ \A s \in Sessions :
             (CloseUpdate(s) /\ UNCHANGED <<muxVars, telVars>>) => ~ proc.released
       /\ \A i \in 1..MaxFlushes, dbFails \in BOOLEAN :
             FlushStep(i, dbFails) => ~ proc.released
       /\ (proc.shutdown # "none" /\ proc.flush # 0) =>
             \A s \in Sessions : closeCode'[s] = closeCode[s]]_vars

\* C28: a register frame whose token has a valid signature and an unexpired
\* exp but an issuer other than 'cli-auth-backend' is rejected: its session
\* is closed with 4001.
C28_ForeignIssuerRejected ==
    [][\A s \in Sessions, t \in TunnelIds, token \in Tokens, sub \in {NoTunnel} \cup TunnelIds :
          (/\ token.signed /\ ~ token.expired /\ token.iss # Issuer
           /\ RegisterRecv(s, t, JwtVerify(token), sub))
          => (closeCode'[s] = CloseAuthFailed /\ wsState'[s] = "closing")]_vars

\* C29: the metrics buffer is bounded: its length never exceeds the
\* capacity of 100 entries, whatever the request rate and however long a
\* flush takes.
C29_BufferBounded == Len(metricsBuffer) <= BufferThreshold

\* C30: inbound frames of one agent session are handled one after the
\* other: a response frame of the serving session is handled only when no
\* register handler of that session is between its database steps.
C30_FramesInOrder ==
    [][\A id \in Reqs : GoodResponse(id, 0) => regPc[1] = "idle"]_vars

\* C31: each transport is in the live map under at most one tunnel id, and
\* once the close handler of a transport has finished no entry of the live
\* map refers to it.
C31_OneEntryPerTransport ==
    \A s \in Sessions :
        /\ \A t, u \in TunnelIds : (agents[t] = s /\ agents[u] = s) => t = u
        /\ closePc[s] = "done" => \A t \in TunnelIds : agents[t] # s

RECURSIVE SumOver(_, _)
SumOver(f, keys) ==
    IF keys = {} THEN 0
    ELSE LET k == CHOOSE x \in keys : TRUE IN f[k] + SumOver(f, keys \ {k})

\* finalizations for tunnel t that have pushed their metric and whose
\* updateLiveStats call has not returned yet
AtLive(t) ==
    BagCardinality([x \in {y \in BagToSet(fin) : y.stage = "live" /\ reqTunnel[y.id] = t}
                      |-> fin[x]])

C33_OnlyOwnSessionFulfils ==
    [][\A s \in Sessions, id \in Reqs, c \in AgentCodes, st \in BOOLEAN :
          (/\ id \in pendingResponses
           /\ id \notin pendingResponses'
           /\ AgentResponse(s, id, c, TRUE, st))
          => (s = reqAgent[id] /\ wsTunnelId[s] # NoTunnel)]_vars

\* C34: a request frame for tunnel T goes out only on the session that the
\* live map holds for T at the moment of sending.
C34_SentOnRegisteredSession ==
    [][\A r \in Reqs :
          (BodyEnd(r, FALSE) /\ wsState[reqAgent[r]] = "open")
          => agents[reqTunnel[r]] = reqAgent[r]]_vars

\* C35: no frame received on an agent transport terminates the server
\* process: a frame that is not JSON, or is JSON but malformed, is dropped
\* or answered with an error frame.
C35_NoFrameExits ==
    [][\A s \in Sessions, frame \in OtherFrames : FrameRecv(s, frame) => ~ proc'.exited]_vars

\* C36: a register frame authenticated as one user for a tunnel whose row
\* another user owns is not accepted: the session the live map holds for a
\* tunnel was authenticated as the owner of the Tunnel row, and a session is
\* evicted only by a session of the same user.
C36_OwnerOnlyRegisters ==
    /\ \A t \in TunnelIds :
          (agents[t] # NoSession /\ tunnelRow[t].exists)
          => regMsg[agents[t]].userId = tunnelRow[t].userId
    /\ \A s \in Sessions :
          evictedBy[s] # NoSession => regMsg[evictedBy[s]].userId = regMsg[s].userId

\* forwarded request r has ended: its response was written, or its request
\* stream failed before the body was complete
Ended(r) == responses[r] # << >> \/ reqPc[r] = "aborted"

\* C37: every in-flight telemetry entry is eventually removed: once a
\* forwarded request has ended in any way, the in-flight map eventually
\* holds no entry for it.
C37_InFlightEventuallyRemoved ==
    \A r \in Reqs : Ended(r) ~> (r \notin activeRequests)

\* C38: when dispatch answers 502 for a tunnel persisted as active with no
\* live session, the Tunnel row is subsequently set to isActive = false
\* (unless an agent registers), so that later requests are answered 503.
C38_Reconciles502 ==
    \A t \in TunnelIds :
        (\E r \in Reqs : /\ responses[r] = <<502>>
                         /\ GetTunnelByIdentifier(tunnelRow, reqIdent[r]) = t)
        ~> (~ tunnelRow[t].isActive \/ agents[t] # NoSession)

\* C39: after any sequence of flushes, uniqueIps of a HourlyStats row is
\* the number of distinct client addresses among all metrics flushed for
\* its tunnel and hour.
C39_UniqueIpsDistinct ==
    \A k \in DOMAIN hourlyStats : hourlyStats[k].uniqueIps = Cardinality(hourlyStats[k].ips)

\* the admissions of address ip at an endpoint in the windowMs before now
RecentAdmitted(ip, endpoint) ==
    Cardinality({n \in DOMAIN web.admitted[<<ip, endpoint>>] :
                    web.admitted[<<ip, endpoint>>][n] > web.now - WindowMs})

\* C40: rateLimit is a sliding window per address and per endpoint: a call
\* is admitted exactly when fewer than the endpoint's limit of that address's
\* calls to that endpoint were admitted in the preceding windowMs, so a
\* refused address is admitted again once windowMs has passed since its
\* window began, and the endpoints do not consume each other's allowance
C40_SlidingWindowPerEndpoint ==
    [][\A ip \in Addresses, endpoint \in Endpoints :
          RateLimitCall(ip, endpoint) =>
              (web'.last.success <=> RecentAdmitted(ip, endpoint) < LimitOf(endpoint))]_vars

\* the HourlyStats rows a step writes
UpsertedKeys ==
    {k \in DOMAIN hourlyStats' : k \notin DOMAIN hourlyStats \/ hourlyStats'[k] # hourlyStats[k]}

\* C20: hour key round trip.  Whenever a flush proceeds with a group, the
\* key of the group decodes to the tunnel id of the group's metrics and to
\* their timestamp truncated to the hour (timestamps are hours here), and a
\* HourlyStats row the step upserts for the group is the row of that tunnel
\* id and hour.
C20_HourKeyRoundTrip ==
    [][\A i \in 1..MaxFlushes, dbFails \in BOOLEAN :
          FlushStep(i, dbFails) =>
              LET group == flushes[i][1]
                  m == group.metrics[1]
              IN  /\ DecodeHourKey(group.key) = <<m.tunnelId, m.timestamp>>
                  /\ UpsertedKeys \subseteq {<<m.tunnelId, m.timestamp>>}]_vars

\* C3: when the close handler of an agent session finishes, every responder
\* of a request forwarded on that session that was still awaiting a response
\* has been fulfilled with 502 and removed from the correlation map.
C3_CloseFulfils502 ==
    [][\A s \in Sessions :
          (closePc[s] # "done" /\ closePc'[s] = "done") =>
              \A r \in pendingResponses :
                  reqAgent[r] = s => (r \notin pendingResponses' /\ responses'[r] = <<502>>)]_vars

\* C4: no HTTP response is written twice for the same public request.
C4_FulfilledAtMostOnce == \A r \in Reqs : Len(responses[r]) <= 1

\* a forwarded request got its response and its responder is unregistered
C4_Witness ==
    \E r \in Reqs : reqPc[r] = "ended" /\ Len(responses[r]) = 1 /\ r \notin pendingResponses

PassedDispatch(r) == reqPc[r] \in {"buffering", "ended", "aborted"}

\* C5: every public request that passed dispatch has its HTTP response, and
\* its responder is unregistered, no later than 10 s after ingress.
C5_DeadlineBound ==
    \A r \in Reqs :
        (PassedDispatch(r) /\ age[r] > TimeoutMs) =>
            (responses[r] # << >> /\ r \notin pendingResponses)

\* C6: when the timeout of a request expires with its responder still
\* registered, the responder is fulfilled with 504 and removed; a response
\* frame for that id that arrives afterwards writes nothing, and changes
\* neither the correlation map nor any responder or timeout.
C6_TimeoutThenDiscard ==
    [][\A r \in Reqs :
          /\ (r \in pendingResponses /\ TimeoutFire(r)) =>
                 (responses'[r] = <<504>> /\ r \notin pendingResponses')
          /\ responses[r] = <<504>> =>
                 \A s \in Sessions, c \in AgentCodes, h \in BOOLEAN, st \in BOOLEAN :
                     AgentResponse(s, r, c, h, st) =>
                         UNCHANGED <<pendingResponses, responses, timer>>]_vars

\* a request timed out while its agent transport is still open
C6_Witness ==
    \E r \in Reqs :
        /\ responses[r] = <<504>>
        /\ r \notin pendingResponses
        /\ wsState[reqAgent[r]] = "open"

\* forwarded request r has its response and no storeRespData is in progress
Finalized(r) ==
    /\ reqTunnel[r] # NoTunnel
    /\ responses[r] # << >>
    /\ InProgress(r) = 0

\* C7: for every forwarded request, whichever way it completes, exactly one
\* metric record is appended, exactly one RequestLog row is inserted, and
\* LiveStats is incremented by exactly one request.
C7_OneMetricPerRequest ==
    /\ \A r \in Reqs : Finalized(r) => (metricsOf[r] = 1 /\ logRows[r] = 1)
    /\ fin = EmptyBag =>
          \A t \in TunnelIds :
              liveStats[t].requestsLast5Min =
                  Cardinality({r \in Reqs : reqTunnel[r] = t /\ responses[r] # << >>})

\* C8: every metric appended to the buffer is added to the HourlyStats
\* counters of its (tunnelId, hour) exactly once: once no flush and no
\* finalization is in progress and the buffer is empty, each row's
\* totalRequests is the number of metrics appended for its key.
C8_EachMetricCountedOnce ==
    (flushes = << >> /\ metricsBuffer = << >> /\ fin = EmptyBag) =>
        \A k \in DOMAIN appended :
            k \in DOMAIN hourlyStats /\ hourlyStats[k].totalRequests = appended[k]

\* C9: at most one flush of the metrics buffer is in progress at a time.
C9_SingleFlush == Len(flushes) <= 1
====
